---------------------------- MODULE Spec2Model ----------------------------
(***************************************************************************)
(* Model of src/translate/ja2zh_subtitles.py: the subtitle pipeline        *)
(* (main, VideoSubtitleGenerator) with its two on-disk caches.             *)
(*                                                                         *)
(* One process run is main(); runs follow one another on the same disk     *)
(* (the cache directory and the subtitle files outlive a run).  A run can  *)
(* be killed at any step (Crash).  JSON documents are modelled as tagged   *)
(* records, Python's str/in/[] on them by the operators below.             *)
(* Strings of the source that are not ASCII are written in ASCII here:     *)
(* FAIL_MARKER stands for the literal '[翻译失败] ' of line 204.           *)
(*                                                                         *)
(* The second part models src/remove_duplicate_images.py (SpecImages): the *)
(* month loop and manage_image_files on one month directory at a time.     *)
(***************************************************************************)
EXTENDS Integers, Sequences, FiniteSets, TLC

\* ---------------------------------------------------------------- bounds
MaxLines     == 3   \* longest transcript (segments per media file)
MaxBatchSize == 2   \* BATCH_SIZE ranges over 1..MaxBatchSize
MaxRuns      == 2   \* process runs on the same disk
MaxFiles     == 2   \* media files discovered by find_media_files

\* ------------------------------------------------------------- constants
\* GPT_MODEL, character by character ("deepseek/deepseek-chat")
GPT_MODEL ==
  <<"d","e","e","p","s","e","e","k","/","d","e","e","p","s","e","e","k","-","c","h","a","t">>

FAIL_MARKER == "[FAILED] "

\* ------------------------------------------------------- strings, Python
\* needle in haystack, both sequences of characters (Python's str.__contains__)
IsInfix(needle, hay) ==
  \E off \in 0..(Len(hay) - Len(needle)) :
     \A j \in 1..Len(needle) : hay[off + j] = needle[j]

DigitChar == <<"0","1","2","3","4","5","6","7","8","9">>

\* the characters of str(n), n >= 0
RECURSIVE Digits(_)
Digits(n) == IF n < 10 THEN <<DigitChar[n + 1]>>
             ELSE Append(Digits(n \div 10), DigitChar[(n % 10) + 1])

\* str(item["id"]): the cache key of line n
StrId(n) == ToString(n)

\* ------------------------------------------------------------------ JSON
\* A parsed JSON document: t is its type; m the members of an object
\* (key -> scalar), a the elements of an array (strings), s the characters
\* of a string.  A scalar inside an object is [t, s] with s its str().
EmptyMap == [k \in {} |-> 0]
JObj(m)  == [t |-> "obj",  m |-> m,        a |-> <<>>, s |-> <<>>]
JArr(a)  == [t |-> "arr",  m |-> EmptyMap, a |-> a,    s |-> <<>>]
JStrDoc(s) == [t |-> "str", m |-> EmptyMap, a |-> <<>>, s |-> s]
JNum     == [t |-> "num",  m |-> EmptyMap, a |-> <<>>, s |-> <<>>]
JNull    == [t |-> "null", m |-> EmptyMap, a |-> <<>>, s |-> <<>>]

SStr(x)  == [t |-> "str", s |-> x]
SNum     == [t |-> "num", s |-> "5"]

\* Python's bool as text
PyBool(b) == IF b THEN "True" ELSE "False"

\* Python's `str(n) in doc`: "True", "False", or "TypeError" for a document
\* that is no container (int, float, bool, None)
PyIn(n, doc) ==
  CASE doc.t = "obj" -> PyBool(StrId(n) \in DOMAIN doc.m)
    [] doc.t = "arr" -> PyBool(\E p \in 1..Len(doc.a) : doc.a[p] = StrId(n))
    [] doc.t = "str" -> PyBool(IsInfix(Digits(n), doc.s))
    [] OTHER         -> "TypeError"

\* Python's `doc[str(n)]` can be evaluated (only a dict takes a str key)
PyCanIndex(doc) == doc.t = "obj"

\* a file on disk holding JSON: absent, corrupt (unparsable), or a document
Absent     == [kind |-> "absent",  doc |-> JNull]
Corrupt    == [kind |-> "corrupt", doc |-> JNull]
JsonFile(d) == [kind |-> "json",   doc |-> d]


\* ------------------------------------------------- transcripts (Whisper)
Variants == {1, 2}

\* The text Whisper returns for line k, as decoded in variant v: with
\* surrounding whitespace, which transcribe_with_cache strips.
Core(k, v)    == (IF v = 1 THEN "a" ELSE "b") \o ToString(k)
RawText(k, v) == IF v = 1 THEN " " \o Core(k, v) ELSE Core(k, v) \o " "
Cores         == {Core(k, v) : k \in 1..(MaxLines + 1), v \in Variants}
Pads          == {"", " "}

\* seg["text"].strip()
Strip(t) == CHOOSE c \in Cores : \E l \in Pads, r \in Pads : t = l \o c \o r

\* start and end of segment k, in milliseconds (the source holds float seconds)
StartMs(k) == (k - 1) * 3601500
EndMs(k)   == StartMs(k) + 1250

\* the two decodings differ in their timing too, by a quarter of a second
Shift(v) == (v - 1) * 250

\* result["segments"] of a transcription of n utterances
Segments(n, v) ==
  [k \in 1..n |-> [start |-> StartMs(k) + Shift(v), end |-> EndMs(k) + Shift(v),
                   text |-> RawText(k, v)]]

\* _seconds_to_srttime: <<hours, minutes, seconds, milliseconds>>
SecondsToSrttime(t) ==
  LET ms            == t % 1000
      total_seconds == t \div 1000
      hours         == total_seconds \div 3600
      rem           == total_seconds % 3600
  IN  <<hours, rem \div 60, rem % 60, ms>>

\* pysrt.SubRipItem(index, start, end, text)
SubRipItem(index, start, end, text) ==
  [index |-> index, start |-> start, end |-> end, text |-> text]

\* lines 94-101: the segments as a SubRipFile, indexed 1..N
ToSubs(segs) ==
  [p \in 1..Len(segs) |->
     SubRipItem(p, SecondsToSrttime(segs[p].start),
                   SecondsToSrttime(segs[p].end), Strip(segs[p].text))]

\* the transcript cache file: absent, corrupt, or the dumped segments
NoSegFile      == [kind |-> "absent",  segs |-> <<>>]
BadSegFile     == [kind |-> "corrupt", segs |-> <<>>]
SegFile(segs)  == [kind |-> "json",    segs |-> segs]

\* ------------------------------------------------- translation (litellm)
ReplyTexts   == {"X", "Y"}
ReplyScalars == {SStr(x) : x \in ReplyTexts} \cup {SNum}

Maps(keys, vals) == UNION {[S -> vals] : S \in SUBSET keys}

\* What one completion() call followed by json.loads can produce for a
\* request about the lines `ks`: an exception (raised), or a document.
Replies(ks) ==
  LET keys == {StrId(k) : k \in ks}
      docs == {JNum, JNull, JArr(<<>>), JStrDoc(<<"x">>)}
                \cup {JArr(<<StrId(k)>>) : k \in ks}
                \cup {JStrDoc(Digits(k)) : k \in ks}
                \cup {JObj(m) : m \in Maps(keys, ReplyScalars)}
  IN  {[raised |-> TRUE, doc |-> JNull]} \cup {[raised |-> FALSE, doc |-> d] : d \in docs}

\* lines 191-195: translated_batch
TranslatedBatch(reply) == IF reply.raised THEN JObj(EmptyMap) ELSE reply.doc

\* line 201, for line k: the value of the test ("True"/"False"), or
\* "TypeError" when `in` or the subscript raises
HasTranslation(k, tb) ==
  LET has == PyIn(k, tb)
  IN  IF has # "True" THEN has
      ELSE IF ~PyCanIndex(tb) THEN "TypeError"
      ELSE PyBool(tb.m[StrId(k)].t = "str")

\* ----------------------------------------------------------------- state
VARIABLES
  \* the world: the media files found (sorted: 1..nfiles), the utterances in
  \* each one's audio, the configured batch size, and the files on disk
  nfiles, audioLen, BATCH_SIZE, transcribeFile, translateFile, srtFile,
  \* the running process: main's and the generator's variables
  run, pc, api_key, whisper_model, idx, success_count, fail_count,
  segments, subs_ja, cache_data, i, translated_subs,
  \* history, read by the properties only
  requests, asrCalls, loads, attempted, failedAt, warned, exitReason,
  prevDone, doneRuns, markerLines,
  \* src/remove_duplicate_images.py: the month loop and the directory that
  \* manage_image_files works on
  ipc, month, visited, thumb, ori, files, keep_set

world == <<nfiles, audioLen, BATCH_SIZE>>
disk  == <<transcribeFile, translateFile, srtFile>>
main  == <<run, api_key, whisper_model, idx, success_count, fail_count>>
call  == <<segments, subs_ja, cache_data, i, translated_subs>>
hist  == <<requests, asrCalls, loads, attempted, failedAt, warned, exitReason,
           prevDone, doneRuns, markerLines>>
images == <<ipc, month, visited, thumb, ori, files, keep_set>>
pipeline == <<world, disk, main, pc, call, hist>>
vars  == <<world, images, disk, main, pc, call, hist>>

Files == 1..nfiles

NoSrt      == [kind |-> "absent", items |-> <<>>]
SrtOf(subs) == [kind |-> "srt",   items |-> subs]

\* what a translation cache file can hold before the first run
InitialTranslateFiles(n) ==
  LET keys == {StrId(k) : k \in 1..n}
  IN  {Absent, Corrupt}
        \cup {JsonFile(d) : d \in {JNum, JNull, JArr(<<>>), JArr(<<"1">>),
                                   JStrDoc(<<"x">>), JStrDoc(<<"1">>)}}
        \cup {JsonFile(JObj(m)) : m \in Maps(keys, {SStr("X"), SNum})}

\* what a transcript cache file can hold before the first run
InitialTranscribeFiles(n) ==
  {NoSegFile, BadSegFile} \cup {SegFile(Segments(n, v)) : v \in Variants}

\* the state before the first run, for nf media files of at most maxLen lines
InitWorld(nf, maxLen) ==
  /\ nfiles = nf
  /\ audioLen \in [1..nf -> 0..maxLen]
  /\ BATCH_SIZE \in 1..MaxBatchSize
  /\ transcribeFile \in [1..nf -> UNION {InitialTranscribeFiles(n) : n \in 0..maxLen}]
  /\ \A f \in 1..nf : transcribeFile[f] \in InitialTranscribeFiles(audioLen[f])
  /\ translateFile \in [1..nf -> UNION {InitialTranslateFiles(n) : n \in 0..maxLen}]
  /\ \A f \in 1..nf : translateFile[f] \in InitialTranslateFiles(audioLen[f])
  /\ srtFile = [f \in 1..nf |-> NoSrt]

InitProcess ==
  /\ run = 1 /\ pc = "start"
  /\ api_key = "" /\ whisper_model = FALSE
  /\ idx = 0 /\ success_count = 0 /\ fail_count = 0
  /\ segments = <<>> /\ subs_ja = <<>> /\ cache_data = JNull
  /\ i = 0 /\ translated_subs = <<>>
  /\ requests = <<>> /\ asrCalls = 0 /\ loads = 0 /\ attempted = <<>>
  /\ failedAt = [f \in 1..nfiles |-> "none"] /\ warned = FALSE
  /\ exitReason = "none"
  /\ prevDone = [f \in 1..nfiles |-> 0]
  /\ doneRuns = [f \in 1..nfiles |-> 0]
  /\ markerLines = [f \in 1..nfiles |-> {}]

\* remove_duplicate_images.py is not running
ImagesIdle ==
  /\ ipc = "idle" /\ month = 0 /\ visited = <<>>
  /\ thumb = {} /\ ori = {} /\ files = {} /\ keep_set = {}

Init == InitWorld(1, MaxLines) /\ InitProcess /\ ImagesIdle

\* --------------------------------------------------------------- helpers
Min(a, b) == IF a < b THEN a ELSE b

Running == {"init", "loop", "extract", "transcribe", "transcribe_dump",
            "translate", "batch", "persist", "save"}
Ended   == {"done", "crashed", "exit1"}

\* the generator's locals and the history of the call, dropped when
\* generate_subtitles is left
ResetCall ==
  /\ segments' = <<>> /\ subs_ja' = <<>> /\ cache_data' = JNull
  /\ i' = 0 /\ translated_subs' = <<>>
  /\ requests' = <<>> /\ asrCalls' = 0

\* (mutant of Raise) the exception is not caught: the loop ends with it
M_RaiseEndsLoop(reason) ==
  /\ fail_count' = fail_count + 1
  /\ failedAt' = [failedAt EXCEPT ![idx] = reason]
  /\ pc' = "done"
  /\ ResetCall
  /\ UNCHANGED <<world, images, run, api_key, whisper_model, idx, success_count,
                 loads, attempted, warned, exitReason, doneRuns, markerLines>>

\* lines 317-320: an exception of generate_subtitles reaches main's loop
Raise(reason) ==
  /\ fail_count' = fail_count + 1
  /\ failedAt' = [failedAt EXCEPT ![idx] = reason]
  /\ pc' = "loop"
  /\ ResetCall
  /\ UNCHANGED <<world, images, run, api_key, whisper_model, idx, success_count,
                 loads, attempted, warned, exitReason, doneRuns, markerLines>>

\* line 131: total_batches
TotalBatches(n, b) == (n + b - 1) \div b

\* line 138: range(0, len(all_items), BATCH_SIZE)
BatchOffsets(n, b) == {off \in 0..(n - 1) : off % b = 0}

\* line 140: len(all_items[off : off + b])
SliceLen(off, n, b) == Min(off + b, n) - off

\* (mutant of BatchNeedsTranslation) every batch is translated again
M_BatchNeedsTranslationAlways == "True"

\* (mutant of BatchLines) the slice holds one item
M_BatchLinesSingle == (i + 1)..Min(i + 1, Len(subs_ja))

\* (mutant of BatchLines) the slice stops one item early
M_BatchLinesShort == (i + 1)..Min(i + BATCH_SIZE - 1, Len(subs_ja))

\* the lines of the batch at offset i (line 140) and its items
BatchLines == (i + 1)..Min(i + BATCH_SIZE, Len(subs_ja))
BatchItems == {subs_ja[k] : k \in BatchLines}

\* batches of the current translate_with_cache call that are finished
BatchesDone == i \div BATCH_SIZE

\* lines 143-147: batch_needs_translation, or "TypeError" when `in` raises
BatchNeedsTranslation ==
  IF PyIn(i + 1, cache_data) = "TypeError" THEN "TypeError"
  ELSE PyBool(\E k \in BatchLines : PyIn(k, cache_data) = "False")

\* (mutant of FinalText) one line without a translation degrades the batch
M_FinalTextWholeBatch(item, tb) ==
  IF \A k \in BatchLines : HasTranslation(k, tb) = "True"
    THEN tb.m[StrId(item.index)].s
    ELSE FAIL_MARKER \o item.text

\* lines 201-204: final_text of an item
FinalText(item, tb) ==
  IF HasTranslation(item.index, tb) = "True"
    THEN tb.m[StrId(item.index)].s
    ELSE FAIL_MARKER \o item.text

\* (mutant of SourceDict) only the lines that are not in the cache are sent
M_SourceDictUncached(batch_items) ==
  [key \in {StrId(it.index) :
              it \in {x \in batch_items : PyIn(x.index, cache_data) = "False"}} |->
     (CHOOSE it \in batch_items : StrId(it.index) = key).text]

\* line 160: source_dict
SourceDict(batch_items) ==
  [key \in {StrId(it.index) : it \in batch_items} |->
     (CHOOSE it \in batch_items : StrId(it.index) = key).text]

\* (mutant of AppendBatch) the items are appended with their source text
M_AppendBatchSource(subs, text) ==
  [p \in 1..(Len(subs) + Cardinality(BatchLines)) |->
     IF p <= Len(subs) THEN subs[p] ELSE subs_ja[i + (p - Len(subs))]]

\* a SubRipFile with the batch's items appended, text[k] the text of line k
\* (SubRipItem keeps str(text))
AppendBatch(subs, text) ==
  [p \in 1..(Len(subs) + Cardinality(BatchLines)) |->
     IF p <= Len(subs) THEN subs[p]
     ELSE LET it == subs_ja[i + (p - Len(subs))]
          IN  SubRipItem(it.index, it.start, it.end, text[i + (p - Len(subs))])]

\* ------------------------------------------------------------------ main
\* lines 265-285: parse the arguments, check the input path, find the media
\* files; exit(1) without the path or without a media file
MainStart ==
  /\ pc = "start"
  /\ \E exists \in BOOLEAN :
       LET why == IF ~exists THEN "no_input"
                  ELSE IF nfiles = 0 THEN "no_media" ELSE "none"
       IN  /\ exitReason' = why
           /\ pc' = IF why = "none" THEN "init" ELSE "exit1"
  /\ UNCHANGED <<world, images, disk, main, call, requests, asrCalls, loads, attempted,
                 failedAt, warned, prevDone, doneRuns, markerLines>>

\* (mutant of InitError) the constructor raises when no key is given
M_InitErrorMissingKey(key, mkdir_ok) ==
  IF key = "" THEN "api_key" ELSE IF mkdir_ok THEN "none" ELSE "mkdir"

\* __init__ (40-50): the exception it raises, "none" if it returns.  A
\* missing key raises nothing; mkdir can fail (an OSError)
InitError(key, mkdir_ok) == IF mkdir_ok THEN "none" ELSE "mkdir"

\* lines 287-296 and __init__ (40-50)
GeneratorInit ==
  /\ pc = "init"
  /\ \E flag \in {"", "sk"}, env \in {"", "sk"}, mkdir_ok \in BOOLEAN :
       LET key == IF flag # "" THEN flag ELSE env
           err == InitError(key, mkdir_ok)
       IN  /\ api_key' = key
           /\ warned' = (key = "" /\ IsInfix(<<"g", "p", "t">>, GPT_MODEL))
           /\ pc' = IF err = "none" THEN "loop" ELSE "exit1"
           /\ exitReason' = err
  /\ whisper_model' = FALSE /\ success_count' = 0 /\ fail_count' = 0
  /\ UNCHANGED <<world, images, disk, run, idx, call, requests, asrCalls, loads,
                 attempted, failedAt, prevDone, doneRuns, markerLines>>

\* lines 298-315 and 219-225: the loop takes the next file
LoopNext ==
  /\ pc = "loop" /\ idx < nfiles
  /\ idx' = idx + 1
  /\ attempted' = Append(attempted, idx + 1)
  /\ pc' = "extract"
  /\ UNCHANGED <<world, images, disk, run, api_key, whisper_model, success_count,
                 fail_count, call, requests, asrCalls, loads, failedAt, warned,
                 exitReason, prevDone, doneRuns, markerLines>>

\* line 322: the loop is over
MainEnd ==
  /\ pc = "loop" /\ idx = nfiles
  /\ pc' = "done"
  /\ UNCHANGED <<world, images, disk, main, call, hist>>

\* (mutant of ExtractAudio) a failed extraction is counted and the file goes
\* on to its transcription
M_ExtractAudioGoesOn ==
  /\ pc = "extract"
  /\ \E failed \in BOOLEAN :
       /\ failedAt' = IF failed THEN [failedAt EXCEPT ![idx] = "extract_audio"]
                      ELSE failedAt
       /\ fail_count' = IF failed THEN fail_count + 1 ELSE fail_count
  /\ pc' = "transcribe"
  /\ UNCHANGED <<world, images, disk, run, api_key, whisper_model, idx, success_count,
                 call, requests, asrCalls, loads, attempted, warned, exitReason,
                 prevDone, doneRuns, markerLines>>

\* lines 229-235 with extract_audio (52-63); the second attempt is the
\* fallback after a PermissionError
ExtractAudio ==
  /\ pc = "extract"
  /\ \E first \in {"ok", "ffmpeg.Error", "PermissionError"},
        second \in {"ok", "ffmpeg.Error"} :
       IF first = "ok" \/ (first = "PermissionError" /\ second = "ok")
         THEN /\ pc' = "transcribe"
              /\ UNCHANGED <<world, images, main, call, hist>>
         ELSE Raise("extract_audio") /\ UNCHANGED prevDone
  /\ UNCHANGED disk

\* --------------------------------------------------- transcribe_with_cache
\* (mutant of TranscribeCached) the cached segments are written back with
\* their text stripped
M_TranscribeCachedRewrites ==
  /\ pc = "transcribe" /\ transcribeFile[idx].kind = "json"
  /\ subs_ja' = ToSubs(transcribeFile[idx].segs)
  /\ transcribeFile' =
       [transcribeFile EXCEPT ![idx] =
          SegFile([k \in 1..Len(@.segs) |-> [@.segs[k] EXCEPT !.text = Strip(@)]])]
  /\ pc' = "translate"
  /\ UNCHANGED <<world, images, translateFile, srtFile, main, segments, cache_data, i,
                 translated_subs, hist>>

\* lines 77-80, 94-101: the cache file exists and parses
TranscribeCached ==
  /\ pc = "transcribe" /\ transcribeFile[idx].kind = "json"
  /\ subs_ja' = ToSubs(transcribeFile[idx].segs)
  /\ pc' = "translate"
  /\ UNCHANGED <<world, images, disk, main, segments, cache_data, i, translated_subs, hist>>

\* lines 77-80: the cache file exists and json.load raises
TranscribeCorrupt ==
  /\ pc = "transcribe" /\ transcribeFile[idx].kind = "corrupt"
  /\ Raise("transcript_cache_parse")
  /\ UNCHANGED <<disk, prevDone>>

\* (mutant of ModelMissing) the model is loaded at every cache miss
M_ModelMissingAlways == TRUE

\* line 83: self.whisper_model is None
ModelMissing == ~whisper_model

\* lines 81-91: no cache file; load the model if needed, transcribe, open
\* the cache file for writing (which empties it)
TranscribeMiss ==
  /\ pc = "transcribe" /\ transcribeFile[idx].kind = "absent"
  /\ \E outcome \in {"load_error", "transcribe_error", "open_error", "ok"},
        v \in Variants :
       /\ outcome = "load_error" => ModelMissing
       /\ IF outcome = "ok"
            THEN /\ whisper_model' = TRUE
                 /\ loads' = IF ModelMissing THEN loads + 1 ELSE loads
                 /\ asrCalls' = asrCalls + 1
                 /\ segments' = Segments(audioLen[idx], v)
                 /\ transcribeFile' = [transcribeFile EXCEPT ![idx] = BadSegFile]
                 /\ pc' = "transcribe_dump"
                 /\ UNCHANGED <<world, images, translateFile, srtFile, run, api_key, idx,
                                success_count, fail_count, subs_ja, cache_data, i,
                                translated_subs, requests, attempted, failedAt,
                                warned, exitReason, doneRuns, markerLines>>
            ELSE /\ fail_count' = fail_count + 1
                 /\ failedAt' = [failedAt EXCEPT ![idx] =
                                   IF outcome = "open_error" THEN "cache_io" ELSE "transcribe"]
                 /\ whisper_model' = (whisper_model \/ outcome # "load_error")
                 /\ loads' = IF ModelMissing THEN loads + 1 ELSE loads
                 /\ pc' = "loop"
                 /\ ResetCall
                 /\ UNCHANGED <<world, images, disk, run, api_key, idx, success_count,
                                attempted, warned, exitReason, doneRuns, markerLines>>
  /\ UNCHANGED prevDone

\* line 92 and 94-101: json.dump completes, the segments become the transcript
TranscribeDump ==
  /\ pc = "transcribe_dump"
  /\ transcribeFile' = [transcribeFile EXCEPT ![idx] = SegFile(segments)]
  /\ subs_ja' = ToSubs(segments)
  /\ pc' = "translate"
  /\ UNCHANGED <<world, images, translateFile, srtFile, main, segments, cache_data, i,
                 translated_subs, hist>>

\* ---------------------------------------------------- translate_with_cache
\* (mutant of LoadCache) the cache file is never read
M_LoadCacheEmpty(file) == JObj(EmptyMap)

\* (mutant of LoadCache) the entry of line 1 is dropped at the load
M_LoadCacheForgetsFirst(file) ==
  IF file.kind = "json" /\ file.doc.t = "obj"
    THEN JObj([key \in DOMAIN file.doc.m \ {"1"} |-> file.doc.m[key]])
    ELSE JObj(EmptyMap)

\* lines 107-115: what the call starts from, given the cache file
LoadCache(file) == IF file.kind = "json" THEN file.doc ELSE JObj(EmptyMap)

\* lines 105-134
TranslateLoad ==
  /\ pc = "translate"
  /\ cache_data' = LoadCache(translateFile[idx])
  /\ i' = 0 /\ translated_subs' = <<>>
  /\ pc' = "batch"
  /\ UNCHANGED <<world, images, disk, main, segments, subs_ja, hist>>

\* lines 150-156: every line of the batch is in the cache
BatchCacheHit ==
  /\ pc = "batch" /\ i < Len(subs_ja)
  /\ BatchNeedsTranslation = "False" /\ PyCanIndex(cache_data)
  /\ translated_subs' =
       AppendBatch(translated_subs, [k \in BatchLines |-> cache_data.m[StrId(k)].s])
  /\ i' = i + BATCH_SIZE
  /\ UNCHANGED <<world, images, disk, main, pc, segments, subs_ja, cache_data, hist>>

\* lines 145 and 152: the loaded cache is no dict, `in` or the subscript raises
BatchCacheRaises ==
  /\ pc = "batch" /\ i < Len(subs_ja)
  /\ \/ BatchNeedsTranslation = "TypeError"
     \/ BatchNeedsTranslation = "False" /\ ~PyCanIndex(cache_data)
  /\ Raise("cache_type")
  /\ prevDone' = [prevDone EXCEPT ![idx] = BatchesDone]
  /\ UNCHANGED disk

\* the request of lines 160-183 and its reply, as the history keeps them:
\* the batch's number and lines, source_dict, the lines not in the cache,
\* what came back ("raised", or the type of the parsed reply) and the
\* strings a reply that is a mapping holds
Request(reply) ==
  [batch    |-> BatchesDone + 1,
   source   |-> SourceDict(BatchItems),
   lines    |-> BatchLines,
   uncached |-> {k \in BatchLines : PyIn(k, cache_data) = "False"},
   reply    |-> IF reply.raised THEN "raised" ELSE reply.doc.t,
   strings  |-> [key \in {x \in DOMAIN reply.doc.m : reply.doc.m[x].t = "str"} |->
                   reply.doc.m[key].s]]

\* the first line of the batch at which lines 198-206 raise, 0 if none:
\* line 201 on a reply that is no dict, line 206 on a cache that is no dict
FirstRaise(tb) ==
  LET bad(k) == HasTranslation(k, tb) = "TypeError" \/ ~PyCanIndex(cache_data)
  IN  IF \E k \in BatchLines : bad(k)
        THEN CHOOSE k \in BatchLines : bad(k) /\ \A j \in BatchLines : bad(j) => k <= j
        ELSE 0

\* lines 158-213: the batch is translated: one request, every line gets its
\* final_text, the cache file is opened for writing (which empties it)
BatchTranslate ==
  /\ pc = "batch" /\ i < Len(subs_ja)
  /\ BatchNeedsTranslation = "True"
  /\ \E reply \in Replies(BatchLines) :
       LET tb == TranslatedBatch(reply)
           final == [k \in BatchLines |-> FinalText(subs_ja[k], tb)]
       IN  /\ FirstRaise(tb) = 0
           /\ cache_data' =
                JObj([key \in DOMAIN cache_data.m \cup {StrId(k) : k \in BatchLines} |->
                        IF \E k \in BatchLines : StrId(k) = key
                          THEN SStr(final[CHOOSE k \in BatchLines : StrId(k) = key])
                          ELSE cache_data.m[key]])
           /\ translated_subs' = AppendBatch(translated_subs, final)
           /\ requests' = Append(requests, Request(reply))
  /\ translateFile' = [translateFile EXCEPT ![idx] = Corrupt]
  /\ pc' = "persist"
  /\ UNCHANGED <<world, images, transcribeFile, srtFile, main, segments, subs_ja, i,
                 asrCalls, loads, attempted, failedAt, warned, exitReason,
                 prevDone, doneRuns, markerLines>>

\* lines 158-213 raising: a TypeError of line 201 (the reply) or 206 (the
\* cache), or an OSError of open() at line 213, which leaves the file as it was
BatchTranslateRaises ==
  /\ pc = "batch" /\ i < Len(subs_ja)
  /\ BatchNeedsTranslation = "True"
  /\ \E reply \in Replies(BatchLines), open_ok \in BOOLEAN :
       LET tb    == TranslatedBatch(reply)
           first == FirstRaise(tb)
       IN  /\ first = 0 => ~open_ok
           /\ fail_count' = fail_count + 1
           /\ failedAt' = [failedAt EXCEPT ![idx] =
                IF first = 0 THEN "cache_io"
                ELSE IF HasTranslation(first, tb) = "TypeError" THEN "reply_type"
                ELSE "cache_type"]
  /\ prevDone' = [prevDone EXCEPT ![idx] = BatchesDone]
  /\ pc' = "loop"
  /\ ResetCall
  /\ UNCHANGED <<world, images, disk, run, api_key, whisper_model, idx, success_count,
                 loads, attempted, warned, exitReason, doneRuns, markerLines>>

\* line 214: json.dump completes; the loop goes to the next batch.
\* markerLines keeps the lines that were persisted with the failure marker
Persist ==
  /\ pc = "persist"
  /\ translateFile' = [translateFile EXCEPT ![idx] = JsonFile(cache_data)]
  /\ i' = i + BATCH_SIZE
  /\ pc' = "batch"
  /\ markerLines' =
       [markerLines EXCEPT ![idx] =
          @ \cup {k \in BatchLines :
                    cache_data.m[StrId(k)] = SStr(FAIL_MARKER \o subs_ja[k].text)}]
  /\ UNCHANGED <<world, images, transcribeFile, srtFile, main, segments, subs_ja,
                 cache_data, translated_subs, requests, asrCalls, loads,
                 attempted, failedAt, warned, exitReason, prevDone, doneRuns>>

\* line 216
TranslateReturn ==
  /\ pc = "batch" /\ i >= Len(subs_ja)
  /\ pc' = "save"
  /\ prevDone' = [prevDone EXCEPT ![idx] = BatchesDone]
  /\ UNCHANGED <<world, images, disk, main, call, requests, asrCalls, loads, attempted,
                 failedAt, warned, exitReason, doneRuns, markerLines>>

\* lines 244-249 and 316
Save ==
  /\ pc = "save"
  /\ \E ok \in BOOLEAN :
       IF ok
         THEN /\ srtFile' = [srtFile EXCEPT ![idx] = SrtOf(translated_subs)]
              /\ success_count' = success_count + 1
              /\ doneRuns' = [doneRuns EXCEPT ![idx] = @ + 1]
              /\ pc' = "loop"
              /\ ResetCall
              /\ UNCHANGED <<world, images, transcribeFile, translateFile, run, api_key,
                             whisper_model, idx, fail_count, loads, attempted,
                             failedAt, warned, exitReason, markerLines>>
         ELSE Raise("save") /\ UNCHANGED disk
  /\ UNCHANGED prevDone

\* ------------------------------------------------------------ the process
\* the process is killed (a signal, a power cut): memory is lost, the disk
\* stays as it is
Crash ==
  /\ pc \in Running
  /\ pc' = "crashed"
  /\ prevDone' = IF pc \in {"batch", "persist"}
                   THEN [prevDone EXCEPT ![idx] = BatchesDone] ELSE prevDone
  /\ api_key' = "" /\ whisper_model' = FALSE
  /\ idx' = 0 /\ success_count' = 0 /\ fail_count' = 0
  /\ ResetCall
  /\ loads' = 0 /\ attempted' = <<>>
  /\ failedAt' = [f \in Files |-> "none"] /\ warned' = FALSE
  /\ UNCHANGED <<world, images, disk, run, exitReason, doneRuns, markerLines>>

\* the program is started again on the same input
Restart ==
  /\ pc \in Ended /\ run < MaxRuns
  /\ run' = run + 1 /\ pc' = "start"
  /\ api_key' = "" /\ whisper_model' = FALSE
  /\ idx' = 0 /\ success_count' = 0 /\ fail_count' = 0
  /\ ResetCall
  /\ loads' = 0 /\ attempted' = <<>>
  /\ failedAt' = [f \in Files |-> "none"] /\ warned' = FALSE
  /\ exitReason' = "none"
  /\ UNCHANGED <<world, images, disk, prevDone, doneRuns, markerLines>>

Next ==
  \/ MainStart \/ GeneratorInit \/ LoopNext \/ MainEnd
  \/ ExtractAudio
  \/ TranscribeCached \/ TranscribeCorrupt \/ TranscribeMiss \/ TranscribeDump
  \/ TranslateLoad \/ BatchCacheHit \/ BatchCacheRaises
  \/ BatchTranslate \/ BatchTranslateRaises \/ Persist \/ TranslateReturn
  \/ Save \/ Crash \/ Restart

Spec == Init /\ [][Next]_vars

\* the batch mode: up to MaxFiles media files, each of at most one line, the
\* translation caches absent, truncated, a mapping or a number
InitBatch ==
  /\ \E nf \in 0..MaxFiles : InitWorld(nf, 1)
  /\ BATCH_SIZE = MaxBatchSize
  /\ \A f \in Files : translateFile[f].kind = "json" => translateFile[f].doc.t \in {"obj", "num"}
  /\ InitProcess /\ ImagesIdle

SpecBatch == InitBatch /\ [][Next]_vars

\* runs that start without translation caches and are killed, if at all,
\* outside the rewrite of a cache file (between batches)
InitResume ==
  /\ Init
  /\ \A f \in Files : translateFile[f] = Absent

CrashBetweenBatches == pc # "persist" /\ Crash

\* BatchCacheRaises is left out: a cache the program wrote is a dict
NextResume ==
  \/ MainStart \/ GeneratorInit \/ LoopNext \/ MainEnd
  \/ ExtractAudio
  \/ TranscribeCached \/ TranscribeCorrupt \/ TranscribeMiss \/ TranscribeDump
  \/ TranslateLoad \/ BatchCacheHit
  \/ BatchTranslate \/ BatchTranslateRaises \/ Persist \/ TranslateReturn
  \/ Save \/ CrashBetweenBatches \/ Restart

SpecResume == InitResume /\ [][NextResume]_vars

\* between two runs somebody deletes the transcript cache file of a media
\* file, and nothing else
DeleteTranscriptCache ==
  /\ pc \in Ended
  /\ \E f \in Files :
       /\ transcribeFile[f] # NoSegFile
       /\ transcribeFile' = [transcribeFile EXCEPT ![f] = NoSegFile]
  /\ UNCHANGED <<world, images, translateFile, srtFile, main, pc, call, hist>>

NextStale == Next \/ DeleteTranscriptCache

SpecStale == Init /\ [][NextStale]_vars

\* ============================================ remove_duplicate_images.py
\* File names are sequences of characters.
begin_month == <<"2", "0", "2", "4", "-", "0", "1">>
num == 11

\* the default of manage_image_files' parameter `extensions`
extensions == {<<".", "j", "p", "g">>, <<".", "p", "n", "g">>}

\* s.endswith(suf)
EndsWith(s, suf) ==
  /\ Len(s) >= Len(suf)
  /\ SubSeq(s, Len(s) - Len(suf) + 1, Len(s)) = suf

\* s.rsplit(sep, 1)[0], sep one character
RSplitHead(s, sep) ==
  IF \E j \in 1..Len(s) : s[j] = sep
    THEN LET last == CHOOSE j \in 1..Len(s) :
                       s[j] = sep /\ \A q \in (j + 1)..Len(s) : s[q] # sep
         IN  SubSeq(s, 1, last - 1)
    ELSE s

\* str.zfill(width)
ZFill(s, width) ==
  IF Len(s) >= width THEN s ELSE [j \in 1..(width - Len(s)) |-> "0"] \o s

\* line 61: the directory name of the loop's iteration `m`
MonthDir(m) == SubSeq(begin_month, 1, 5) \o ZFill(Digits(m), 2)

\* the pictures a month directory can hold: base names (one with an
\* underscore), in thumb/ as <base>_0<ext> and <base>_720<ext>, in ori/ as
\* <base><ext>
Bases == {<<"a">>, <<"b", "_", "c">>}
LowRes(base, ext)  == base \o <<"_", "0">> \o ext
HighRes(base, ext) == base \o <<"_", "7", "2", "0">> \o ext
ThumbNames == {LowRes(b, e) : b \in Bases, e \in extensions}
                \cup {HighRes(b, e) : b \in Bases, e \in extensions}
OriNames   == {b \o e : b \in Bases, e \in extensions}

InitImages ==
  /\ InitWorld(0, 0) /\ BATCH_SIZE = 1 /\ InitProcess
  /\ ipc = "loop" /\ month = 0 /\ visited = <<>>
  /\ thumb = {} /\ ori = {} /\ files = {} /\ keep_set = {}

\* lines 60-65 and 24-27: one iteration of the month loop up to the listing
\* of thumb/ (os.listdir raises when the month directory has no thumb/)
MonthLoop ==
  /\ ipc = "loop" /\ month < num
  /\ visited' = Append(visited, MonthDir(month))
  /\ \E exists \in BOOLEAN, has_thumb \in BOOLEAN,
        th \in SUBSET ThumbNames, orig \in SUBSET OriNames :
       IF ~exists
         THEN /\ month' = month + 1
              /\ UNCHANGED <<ipc, thumb, ori, files, keep_set>>
         ELSE IF ~has_thumb
         THEN /\ ipc' = "error"
              /\ UNCHANGED <<month, thumb, ori, files, keep_set>>
         ELSE /\ thumb' = th /\ ori' = orig /\ files' = th /\ keep_set' = {}
              /\ ipc' = "scan"
              /\ UNCHANGED month
  /\ UNCHANGED pipeline

\* lines 30-37: the base names that have a <base>_720<ext>
ScanThumb ==
  /\ ipc = "scan"
  /\ keep_set' = {RSplitHead(file, "_") :
                    file \in {f \in files : \E ext \in extensions :
                                               EndsWith(f, <<"_", "7", "2", "0">> \o ext)}}
  /\ ipc' = "low"
  /\ UNCHANGED <<month, visited, thumb, ori, files, pipeline>>

\* lines 40-46: remove the <base>_0<ext> whose base name is in keep_set
RemoveLowRes ==
  /\ ipc = "low"
  /\ thumb' = thumb \ {file \in files :
                          /\ \E ext \in extensions : EndsWith(file, <<"_", "0">> \o ext)
                          /\ RSplitHead(file, "_") \in keep_set}
  /\ ipc' = "ori"
  /\ UNCHANGED <<month, visited, ori, files, keep_set, pipeline>>

\* lines 49-58: remove thumb/<base>_0<ext> for every ori/<base><ext>
\* (os.listdir raises when the month directory has no ori/)
RemoveOriThumbs ==
  /\ ipc = "ori"
  /\ \E has_ori \in BOOLEAN :
       IF has_ori
         THEN /\ thumb' = thumb \ {LowRes(RSplitHead(hit[1], "."), hit[2]) :
                                      hit \in {h \in ori \X extensions : EndsWith(h[1], h[2])}}
              /\ ipc' = "returned"
         ELSE /\ ipc' = "error"
              /\ UNCHANGED thumb
  /\ UNCHANGED <<month, visited, ori, files, keep_set, pipeline>>

\* line 60: manage_image_files returned, the loop takes the next month (the
\* model then looks at no directory until the next one is opened)
MonthNext ==
  /\ ipc = "returned"
  /\ month' = month + 1
  /\ ipc' = "loop"
  /\ thumb' = {} /\ ori' = {} /\ files' = {} /\ keep_set' = {}
  /\ UNCHANGED <<visited, pipeline>>

\* the loop is over
MonthsEnd ==
  /\ ipc = "loop" /\ month = num
  /\ ipc' = "done"
  /\ UNCHANGED <<month, visited, thumb, ori, files, keep_set, pipeline>>

NextImages ==
  \/ MonthLoop \/ ScanThumb \/ RemoveLowRes \/ RemoveOriThumbs
  \/ MonthNext \/ MonthsEnd

SpecImages == InitImages /\ [][NextImages]_vars

\* ================================================================ claims
\* the stages of generate_subtitles
InFile == {"extract", "transcribe", "transcribe_dump", "translate", "batch",
           "persist", "save"}

\* C1: when translate_with_cache returns, the output has exactly as many
\* lines as the transcript, and its k-th line has index k and the start and
\* end of the transcript's k-th line, whatever the cache held and whatever
\* the replies were.
C1_IndexCoverage ==
  pc = "save" =>
    /\ Len(translated_subs) = Len(subs_ja)
    /\ \A k \in 1..Len(subs_ja) :
         /\ subs_ja[k].index = k
         /\ translated_subs[k].index = k
         /\ translated_subs[k].start = subs_ja[k].start
         /\ translated_subs[k].end = subs_ja[k].end

\* C1 witness: a call returned three lines, one batch from the cache and one
\* translated, with a line that got the failure marker.
C1_Witness ==
  /\ pc = "save" /\ Len(translated_subs) = 3 /\ Len(requests) = 1
  /\ BATCH_SIZE = 2
  /\ \E k \in 1..3 : translated_subs[k].text = FAIL_MARKER \o subs_ja[k].text

\* C2 (as claimed): in a run that follows one which had finished K batches of
\* this file, every translation request is for a batch after the K-th.
C2_ResumeAfterPersisted ==
  pc \in {"batch", "persist"} =>
    \A p \in 1..Len(requests) : requests[p].batch > prevDone[idx]

\* C3: once generate_subtitles has completed for a media file, a later call
\* for the same file makes no transcription call and no translation request,
\* and what it is about to save equals the subtitle file already written.
C3_Idempotence ==
  (pc \in InFile /\ doneRuns[idx] >= 1) =>
    /\ asrCalls = 0
    /\ requests = <<>>
    /\ pc = "save" => srtFile[idx] = SrtOf(translated_subs)

\* C3 witness: a second call reaches the save with two lines or more.
C3_Witness ==
  /\ pc = "save" /\ doneRuns[idx] >= 1 /\ Len(translated_subs) >= 2
  /\ srtFile[idx].kind = "srt"

\* C4 (as claimed): an unparsable transcript cache file never fails the file.
C4_CorruptTranscriptRecovers ==
  \A f \in Files : failedAt[f] # "transcript_cache_parse"

\* C5 (as claimed): no outcome of a batch's translation request aborts the
\* file.
C5_BatchFailureNeverAborts ==
  \A f \in Files : failedAt[f] # "reply_type"

\* the lines of request r for which the reply holds a string
Answered(r) == {k \in r.lines : StrId(k) \in DOMAIN r.strings}

\* C6: when the reply to a batch is a mapping with a string for every line
\* of the batch but one, that line gets the failure marker followed by its
\* source text and every other line the reply's string, in the output and,
\* once the batch is persisted, in the cache file.
C6_PartialFailureIsolation ==
  pc \in {"batch", "persist", "save"} =>
    \A p \in 1..Len(requests) :
      LET r == requests[p]
      IN  (r.reply = "obj" /\ Cardinality(r.lines \ Answered(r)) = 1) =>
            \A k \in r.lines :
              LET want == IF k \in Answered(r) THEN r.strings[StrId(k)]
                          ELSE FAIL_MARKER \o subs_ja[k].text
              IN  /\ translated_subs[k].text = want
                  /\ pc \in {"batch", "save"} =>
                       /\ translateFile[idx].kind = "json"
                       /\ translateFile[idx].doc.t = "obj"
                       /\ StrId(k) \in DOMAIN translateFile[idx].doc.m
                       /\ translateFile[idx].doc.m[StrId(k)] = SStr(want)

\* C6 witness: a persisted batch of two lines, one answered and one not.
C6_Witness ==
  /\ pc = "batch"
  /\ \E p \in 1..Len(requests) :
       /\ requests[p].reply = "obj"
       /\ Cardinality(requests[p].lines) = 2
       /\ Cardinality(Answered(requests[p])) = 1

\* the transcript lines of file f, as its transcript cache holds them
LinesOf(f) == Len(transcribeFile[f].segs)

\* C7 (as claimed): after a crash, the cache file read back holds every line
\* of every batch that was finished before the crash.
C7_CrashLosesAtMostOneBatch ==
  pc = "crashed" =>
    \A f \in Files :
      \A k \in 1..Min(prevDone[f] * BATCH_SIZE, LinesOf(f)) :
        PyIn(k, LoadCache(translateFile[f])) = "True"

\* C8 (as claimed): a request carries exactly the lines of its batch that
\* are not in the cache.
C8_RequestCarriesUncachedOnly ==
  \A p \in 1..Len(requests) :
    DOMAIN requests[p].source = {StrId(k) : k \in requests[p].uncached}

\* C8 (amended): a request is made only for a batch with a line that is not
\* in the cache, there is one request per such batch, and it carries every
\* line of the batch with its source text, the cached lines included.
C8_RequestCarriesWholeBatch ==
  pc \in {"batch", "persist", "save"} =>
    \A p \in 1..Len(requests) :
      LET r == requests[p]
      IN  /\ r.uncached # {}
          /\ r.lines = ((r.batch - 1) * BATCH_SIZE + 1)..
                         Min(r.batch * BATCH_SIZE, Len(subs_ja))
          /\ DOMAIN r.source = {StrId(k) : k \in r.lines}
          /\ \A k \in r.lines : r.source[StrId(k)] = subs_ja[k].text
          /\ \A q \in 1..Len(requests) : p < q => r.batch < requests[q].batch

\* C8 witness: a request for a batch of which one line was in the cache.
C8_Witness ==
  /\ pc = "persist"
  /\ \E p \in 1..Len(requests) :
       /\ requests[p].uncached # requests[p].lines
       /\ requests[p].uncached # {}

C10_BatchLoopTally ==
  /\ attempted = [p \in 1..idx |-> p]
  /\ pc \in {"loop", "done"} =>
       /\ success_count + fail_count = idx
       /\ fail_count = Cardinality({f \in Files : failedAt[f] # "none"})
  /\ pc = "done" => idx = nfiles

\* C10 witness: the first of two files failed, the second was processed.
C10_Witness ==
  /\ pc = "done" /\ nfiles = 2
  /\ failedAt[1] # "none" /\ failedAt[2] = "none"
  /\ success_count = 1 /\ fail_count = 1

\* C11: the stages of a media file run in order: the transcription starts only
\* from a successful audio extraction, the translation only from a returned
\* transcription, the subtitle file is written only after the translation
\* returned; a stage that raises fails the file, nothing is written to its
\* subtitle file, and the loop goes on with the next file, never back.
C11_StageOrder ==
  [][/\ pc' = "extract" => pc = "loop" /\ idx' = idx + 1
     /\ (pc' = "transcribe" /\ pc # "transcribe") =>
          pc = "extract" /\ idx' = idx /\ failedAt' = failedAt
     /\ pc' = "transcribe_dump" => pc = "transcribe"
     /\ pc' = "translate" =>
          /\ pc \in {"transcribe", "transcribe_dump"}
          /\ transcribeFile'[idx].kind = "json"
          /\ subs_ja' = ToSubs(transcribeFile'[idx].segs)
     /\ (pc' = "batch" /\ pc # "batch") => pc \in {"translate", "persist"}
     /\ pc' = "persist" => pc = "batch"
     /\ pc' = "save" => pc = "batch" /\ Len(translated_subs) = Len(subs_ja)
     /\ srtFile' # srtFile =>
          /\ pc = "save" /\ pc' = "loop"
          /\ failedAt[idx] = "none" /\ failedAt' = failedAt
          /\ success_count' = success_count + 1
          /\ \A f \in Files \ {idx} : srtFile'[f] = srtFile[f]
     /\ (pc \in InFile /\ failedAt' # failedAt /\ pc' # "crashed") =>
          /\ failedAt[idx] = "none" /\ failedAt'[idx] # "none"
          /\ pc' = "loop" /\ idx' = idx
          /\ srtFile' = srtFile
     /\ (pc \in InFile /\ pc' \notin InFile \cup {"crashed"}) => pc' = "loop"
     /\ (pc = "loop" /\ pc' \in Running) => pc' = "extract"]_vars

\* C11 witness: the first file failed without a subtitle file and the second
\* file is at its first stage.
C11_Witness ==
  /\ pc = "extract" /\ idx = 2
  /\ failedAt[1] # "none" /\ srtFile[1] = NoSrt

C13_TranscriptWrittenOnce ==
  [][/\ \A f \in Files :
          transcribeFile'[f] # transcribeFile[f] =>
            /\ f = idx
            /\ \/ /\ pc = "transcribe" /\ pc' = "transcribe_dump"
                  /\ transcribeFile[f] = NoSegFile
                  /\ transcribeFile'[f] = BadSegFile
                  /\ asrCalls' = asrCalls + 1
                  /\ \E v \in Variants : segments' = Segments(audioLen[f], v)
               \/ /\ pc = "transcribe_dump" /\ pc' = "translate"
                  /\ transcribeFile[f] = BadSegFile
                  /\ transcribeFile'[f] = SegFile(segments)
     /\ (pc = "transcribe" /\ pc' = "loop") =>
          /\ transcribeFile' = transcribeFile
          /\ failedAt'[idx] \in {"transcribe", "cache_io"} =>
               transcribeFile[idx] = NoSegFile]_vars

\* C13 witness: a call transcribed two lines or more, wrote the cache file
\* and went through translate_with_cache with a persisted batch; the file
\* holds the segments as transcribed.
C13_Witness ==
  /\ pc = "save" /\ asrCalls = 1 /\ Len(segments) >= 2
  /\ transcribeFile[idx] = SegFile(segments)
  /\ Len(requests) >= 1

\* the call of translate_with_cache started from an empty cache: every key
\* of cache_data was put there by one of its requests
EmptyCacheAtLoad ==
  /\ \A p \in 1..Len(requests) : requests[p].uncached = requests[p].lines
  /\ DOMAIN cache_data.m =
       UNION {{StrId(k) : k \in requests[p].lines} : p \in 1..Len(requests)}

\* C14: translate_with_cache goes through the N lines in ceil(N/B)
\* contiguous batches in index order, each of B lines but a last one of
\* N mod B lines when B does not divide N (32 lines and B = 15: 15, 15, 2);
\* from an empty cache it makes one request per batch, and the output
\* covers the N lines whatever B is.
C14_BatchPartition ==
  /\ TotalBatches(32, 15) = 3
  /\ {<<off, SliceLen(off, 32, 15)>> : off \in BatchOffsets(32, 15)} =
       {<<0, 15>>, <<15, 15>>, <<30, 2>>}
  /\ pc \in {"batch", "persist", "save"} =>
       LET N == Len(subs_ja)
           B == BATCH_SIZE
       IN  /\ i % B = 0 /\ BatchesDone <= TotalBatches(N, B)
           /\ i < N =>
                /\ i \in BatchOffsets(N, B)
                /\ BatchLines = (i + 1)..(i + SliceLen(i, N, B))
                /\ Cardinality(BatchLines) = IF i + B <= N THEN B ELSE N % B
           /\ Len(translated_subs) = Min(N, IF pc = "persist" THEN i + B ELSE i)
           /\ \A p \in 1..Len(requests) :
                /\ requests[p].batch \in 1..TotalBatches(N, B)
                /\ requests[p].lines =
                     ((requests[p].batch - 1) * B + 1)..Min(requests[p].batch * B, N)
           /\ pc = "save" =>
                /\ BatchesDone = TotalBatches(N, B)
                /\ Len(translated_subs) = N
                /\ EmptyCacheAtLoad =>
                     /\ Len(requests) = TotalBatches(N, B)
                     /\ \A p \in 1..Len(requests) : requests[p].batch = p

\* C14 witness: three lines with B = 2 and an empty cache: two requests, for
\* lines 1-2 and for line 3.
C14_Witness ==
  /\ pc = "save" /\ Len(subs_ja) = 3 /\ BATCH_SIZE = 2
  /\ EmptyCacheAtLoad
  /\ Len(requests) = 2
  /\ requests[1].lines = {1, 2} /\ requests[2].lines = {3}

\* C15 (as claimed): when manage_image_files returns, a <base>_0<ext> that
\* was in thumb/ is still there if and only if thumb/ held no
\* <base>_720<ext> with the same base name and the same extension.
C15_LowResKeptIffNoHighRes ==
  ipc = "returned" =>
    \A b \in Bases, e \in extensions :
      LowRes(b, e) \in files =>
        (LowRes(b, e) \in thumb <=> HighRes(b, e) \notin files)

\* C16 (as claimed): the month loop visits 2024-01, 2024-02, ..., 2024-11.
C16_VisitsJanuaryToNovember ==
  ipc = "done" =>
    visited = [m \in 1..11 |-> <<"2", "0", "2", "4", "-">> \o ZFill(Digits(m), 2)]

\* the cache file of f holds exactly the lines 1..j
HoldsPrefix(f, j) ==
  /\ translateFile[f].kind = "json" /\ translateFile[f].doc.t = "obj"
  /\ DOMAIN translateFile[f].doc.m = {StrId(k) : k \in 1..j}

\* C17: from no translation cache, over runs that complete or are
\* interrupted between batches, the cache file (outside its rewrite) is
\* absent or holds exactly the lines 1..j of a prefix of whole batches
\* (j a multiple of the batch size, or j = N), the loaded cache is a
\* dict, and a value once in the file is carried unchanged into every
\* later content of the file.
C17_PrefixOfWholeBatches ==
  /\ [](\A f \in Files :
          \/ f = idx /\ pc = "persist"
          \/ translateFile[f] = Absent
          \/ \E j \in 1..LinesOf(f) :
               /\ j % BATCH_SIZE = 0 \/ j = LinesOf(f)
               /\ HoldsPrefix(f, j))
  /\ [](pc \in {"batch", "persist"} => cache_data.t = "obj")
  /\ [][/\ translateFile' # translateFile =>
             \/ pc = "batch" /\ pc' = "persist"
             \/ pc = "persist" /\ pc' = "batch"
        /\ (pc = "batch" /\ pc' = "persist" /\ translateFile[idx].kind = "json") =>
             \A key \in DOMAIN translateFile[idx].doc.m :
               /\ key \in DOMAIN cache_data'.m
               /\ cache_data'.m[key] = translateFile[idx].doc.m[key]
        /\ (pc = "persist" /\ pc' = "batch") =>
             /\ translateFile'[idx] = JsonFile(cache_data)
             /\ \A f \in Files \ {idx} : translateFile'[f] = translateFile[f]]_vars

\* C17 witness: a second run found line 1 of three in the cache (batch size
\* 1) and is rewriting the file after its first request, for batch 2.
C17_Witness ==
  /\ run = 2 /\ pc = "persist" /\ BATCH_SIZE = 1 /\ Len(subs_ja) = 3
  /\ Len(requests) = 1 /\ requests[1].batch = 2
  /\ DOMAIN cache_data.m = {"1", "2"}

\* C18 (as claimed): a line that was persisted with the failure marker is in
\* no later request, and every later call returns the marker for it.
C18_MarkerNeverRetried ==
  /\ pc = "persist" =>
       requests[Len(requests)].lines \cap markerLines[idx] = {}
  /\ pc = "save" =>
       \A k \in markerLines[idx] :
         translated_subs[k].text = FAIL_MARKER \o subs_ja[k].text

\* C19 (as claimed): when translate_with_cache returns from a cache that was
\* a mapping, the cache file maps the index of every output line to
\* exactly the text of that line.
C19_CacheEqualsOutput ==
  (pc = "save" /\ cache_data.t = "obj") =>
    \A k \in 1..Len(translated_subs) :
      /\ translateFile[idx].kind = "json" /\ translateFile[idx].doc.t = "obj"
      /\ StrId(k) \in DOMAIN translateFile[idx].doc.m
      /\ translateFile[idx].doc.m[StrId(k)] = SStr(translated_subs[k].text)

\* C19 (amended): when translate_with_cache returns from a cache that was a
\* mapping, the cache file holds the index of every output line, and the
\* text of the line is str() of the value: the value itself when it is a
\* string, which it is for every line of a batch that was requested; a
\* value that is no string can only be one the cache held before.
C19_OutputIsStrOfCache ==
  (pc = "save" /\ cache_data.t = "obj") =>
    /\ translateFile[idx] = JsonFile(cache_data) \/ Len(subs_ja) = 0
    /\ \A k \in 1..Len(translated_subs) :
         /\ StrId(k) \in DOMAIN cache_data.m
         /\ translated_subs[k].text = cache_data.m[StrId(k)].s
         /\ (\E p \in 1..Len(requests) : k \in requests[p].lines) =>
              cache_data.m[StrId(k)] = SStr(translated_subs[k].text)

\* C19 witness: a call returned a line served from a cached number and a
\* line that was requested.
C19_Witness ==
  /\ pc = "save" /\ Len(requests) >= 1 /\ cache_data.t = "obj"
  /\ \E k \in 1..Len(translated_subs) :
       /\ translateFile[idx].doc.m[StrId(k)] = SNum
       /\ translated_subs[k].text = "5"

\* C20: the translation cache is looked up by index only: no request is made
\* for a batch whose indices are all in the cache, and each line of such a
\* batch is output with the cached value as its text and the index and
\* timing of the current transcript, whatever the current source text is.
C20_CacheLookupByIndexOnly ==
  pc \in {"batch", "persist", "save"} =>
    /\ \A p \in 1..Len(requests) : requests[p].uncached # {}
    /\ \A k \in 1..Len(translated_subs) :
         (\A p \in 1..Len(requests) : k \notin requests[p].lines) =>
           /\ translated_subs[k].text = cache_data.m[StrId(k)].s
           /\ translated_subs[k].index = k
           /\ translated_subs[k].start = subs_ja[k].start
           /\ translated_subs[k].end = subs_ja[k].end

\* C20 witness: after the transcript cache was deleted and the audio was
\* transcribed again in the other decoding, a call returns without a
\* request a line with the new transcript's text and timing on the source
\* side and the marker persisted for the old text as its output.
C20_Witness ==
  /\ pc = "save" /\ requests = <<>> /\ asrCalls = 1
  /\ \E k \in 1..Len(translated_subs) :
       /\ subs_ja[k].text = Core(k, 2)
       /\ translated_subs[k].text = FAIL_MARKER \o Core(k, 1)
       /\ translated_subs[k].start = SecondsToSrttime(StartMs(k) + Shift(2))
       /\ translated_subs[k].start # SecondsToSrttime(StartMs(k) + Shift(1))

=============================================================================
